---- MODULE Spec2Model ----
(***************************************************************************)
(* mito (src/src/main.rs): packs a directory tree into the single file     *)
(* out.out (encode) and unpacks it under output/ (decode), in one of four  *)
(* modes.  Files, paths and archives are sequences of bytes (0..255);      *)
(* text is its ASCII/UTF-8 bytes.                                          *)
(***************************************************************************)
EXTENDS Integers, Sequences, FiniteSets, TLC

(***************************************************************************)
(* Bytes that the code names.                                              *)
(***************************************************************************)
Newline == 10
Equals == 61
Bar == 124
Slash == 47
Dot == 46

\* "====", the delimiter of file_sep and of the header test
Delim == <<Equals, Equals, Equals, Equals>>
\* "====\n"
DelimNl == <<Equals, Equals, Equals, Equals, Newline>>

\* ENCODE_OUTPUT = "out.out"
ENCODE_OUTPUT == <<111, 117, 116, 46, 111, 117, 116>>
\* DECODE_OUTPUT = "output"
DECODE_OUTPUT == <<111, 117, 116, 112, 117, 116>>
\* IGNORED_FILE_DIR = [".git", "Cargo.lock", "target", "node_modules", ENCODE_OUTPUT, DECODE_OUTPUT]
IGNORED_FILE_DIR ==
    { <<46, 103, 105, 116>>,
      <<67, 97, 114, 103, 111, 46, 108, 111, 99, 107>>,
      <<116, 97, 114, 103, 101, 116>>,
      <<110, 111, 100, 101, 95, 109, 111, 100, 117, 108, 101, 115>>,
      ENCODE_OUTPUT,
      DECODE_OUTPUT }

(***************************************************************************)
(* Byte strings.                                                           *)
(***************************************************************************)
StartsWith(s, p) == Len(s) >= Len(p) /\ SubSeq(s, 1, Len(p)) = p

EndsWith(s, p) == Len(s) >= Len(p) /\ SubSeq(s, Len(s) - Len(p) + 1, Len(s)) = p

\* str::find(ch): the 1-based index of the first ch in s, 0 when there is none
Find(s, ch) ==
    IF \E i \in 1..Len(s) : s[i] = ch
    THEN CHOOSE i \in 1..Len(s) : s[i] = ch /\ \A j \in 1..(i - 1) : s[j] # ch
    ELSE 0

\* str::split(ch): the pieces of s between the occurrences of ch
RECURSIVE Split(_, _)
Split(s, ch) ==
    LET i == Find(s, ch)
    IN IF i = 0 THEN <<s>>
       ELSE <<SubSeq(s, 1, i - 1)>> \o Split(SubSeq(s, i + 1, Len(s)), ch)

\* the pieces joined with ch between them
RECURSIVE Join(_, _)
Join(parts, ch) ==
    IF Len(parts) = 0 THEN <<>>
    ELSE IF Len(parts) = 1 THEN parts[1]
    ELSE parts[1] \o <<ch>> \o Join(Tail(parts), ch)

\* lexicographic order of byte strings
RECURSIVE LexLess(_, _)
LexLess(a, b) ==
    IF Len(b) = 0 THEN FALSE
    ELSE IF Len(a) = 0 THEN TRUE
    ELSE IF a[1] # b[1] THEN a[1] < b[1]
    ELSE LexLess(Tail(a), Tail(b))

\* u64::to_string: the decimal digits of n
RECURSIVE ToDecimal(_)
ToDecimal(n) ==
    IF n < 10 THEN <<48 + n>> ELSE ToDecimal(n \div 10) \o <<48 + (n % 10)>>

(***************************************************************************)
(* String::from_utf8, as read_to_string applies it: whether b is           *)
(* well-formed UTF-8.                                                      *)
(***************************************************************************)
IsCont(c) == c >= 128 /\ c <= 191

\* the number of bytes of the character that starts with c, 0 when none does
Utf8Width(c) ==
    IF c < 128 THEN 1
    ELSE IF c >= 194 /\ c <= 223 THEN 2
    ELSE IF c >= 224 /\ c <= 239 THEN 3
    ELSE IF c >= 240 /\ c <= 244 THEN 4
    ELSE 0

\* every byte that is not a continuation byte starts a character, followed by
\* its continuation bytes and by no more of them; the text starts with one
Utf8Valid(b) ==
    LET n == Len(b)
    IN /\ n > 0 => ~IsCont(b[1])
       /\ \A i \in 1..n :
              ~IsCont(b[i]) =>
                  LET w == Utf8Width(b[i])
                  IN /\ w > 0
                     /\ i + w - 1 <= n
                     /\ \A k \in (i + 1)..(i + w - 1) : IsCont(b[k])
                     /\ i + w <= n => ~IsCont(b[i + w])
                     /\ (b[i] = 224 => b[i + 1] >= 160)
                     /\ (b[i] = 237 => b[i + 1] <= 159)
                     /\ (b[i] = 240 => b[i + 1] >= 144)
                     /\ (b[i] = 244 => b[i + 1] <= 143)

\* str::is_char_boundary(i) for a 0-based byte offset i of the valid text s
IsCharBoundary(s, i) == i = 0 \/ i = Len(s) \/ (i < Len(s) /\ ~IsCont(s[i + 1]))

(***************************************************************************)
(* base64::encode and base64::decode (standard alphabet, padded).          *)
(***************************************************************************)
B64Char(v) ==
    IF v < 26 THEN 65 + v
    ELSE IF v < 52 THEN 97 + (v - 26)
    ELSE IF v < 62 THEN 48 + (v - 52)
    ELSE IF v = 62 THEN 43
    ELSE 47

\* the 6-bit value of an alphabet character, -1 for any other byte
B64Val(c) ==
    IF c >= 65 /\ c <= 90 THEN c - 65
    ELSE IF c >= 97 /\ c <= 122 THEN c - 97 + 26
    ELSE IF c >= 48 /\ c <= 57 THEN c - 48 + 52
    ELSE IF c = 43 THEN 62
    ELSE IF c = 47 THEN 63
    ELSE -1

RECURSIVE Base64Encode(_)
Base64Encode(b) ==
    LET n == Len(b)
    IN IF n = 0 THEN <<>>
       ELSE IF n = 1
            THEN <<B64Char(b[1] \div 4), B64Char((b[1] % 4) * 16), Equals, Equals>>
       ELSE IF n = 2
            THEN <<B64Char(b[1] \div 4),
                   B64Char((b[1] % 4) * 16 + b[2] \div 16),
                   B64Char((b[2] % 16) * 4),
                   Equals>>
       ELSE <<B64Char(b[1] \div 4),
              B64Char((b[1] % 4) * 16 + b[2] \div 16),
              B64Char((b[2] % 16) * 4 + b[3] \div 64),
              B64Char(b[3] % 64)>> \o Base64Encode(SubSeq(b, 4, n))

\* whether base64::decode accepts the text t
RECURSIVE Base64Valid(_)
Base64Valid(t) ==
    LET n == Len(t)
    IN IF n = 0 THEN TRUE
       ELSE IF n < 4 THEN FALSE
       ELSE IF n = 4
            THEN /\ B64Val(t[1]) >= 0
                 /\ B64Val(t[2]) >= 0
                 /\ \/ B64Val(t[3]) >= 0 /\ B64Val(t[4]) >= 0
                    \/ B64Val(t[3]) >= 0 /\ t[4] = Equals /\ B64Val(t[3]) % 4 = 0
                    \/ t[3] = Equals /\ t[4] = Equals /\ B64Val(t[2]) % 16 = 0
       ELSE /\ \A i \in 1..4 : B64Val(t[i]) >= 0
            /\ Base64Valid(SubSeq(t, 5, n))

\* the bytes base64::decode returns for an accepted text t
RECURSIVE Base64Decode(_)
Base64Decode(t) ==
    LET n == Len(t)
    IN IF n < 4 THEN <<>>
       ELSE LET v1 == B64Val(t[1])
                v2 == B64Val(t[2])
                v3 == B64Val(t[3])
                v4 == B64Val(t[4])
                b1 == v1 * 4 + v2 \div 16
                b2 == (v2 % 16) * 16 + v3 \div 4
                b3 == (v3 % 4) * 64 + v4
            IN IF t[3] = Equals THEN <<b1>>
               ELSE IF t[4] = Equals THEN <<b1, b2>>
               ELSE <<b1, b2, b3>> \o Base64Decode(SubSeq(t, 5, n))

(***************************************************************************)
(* flate2's zlib stream.  ZlibEncoder::finish is modelled as the zlib      *)
(* container (header 78 9C, Adler-32 trailer) around one stored deflate    *)
(* block; ZlibDecoder checks the header, the block and the checksum.       *)
(***************************************************************************)
\* the sum of d[lo..hi]; with `weighted`, each byte counted once for every
\* position from its own to the last
RECURSIVE AdlerSum(_, _, _, _)
AdlerSum(d, lo, hi, weighted) ==
    IF lo > hi THEN 0
    ELSE IF lo = hi THEN (IF weighted THEN (Len(d) - lo + 1) * d[lo] ELSE d[lo])
    ELSE AdlerSum(d, lo, (lo + hi) \div 2, weighted)
             + AdlerSum(d, (lo + hi) \div 2 + 1, hi, weighted)

\* a is 1 plus the bytes, b the sum of the values a takes, both modulo 65521;
\* the checksum is b then a, two bytes each, high byte first
Adler32(d) ==
    LET a == (1 + AdlerSum(d, 1, Len(d), FALSE)) % 65521
        b == (Len(d) + AdlerSum(d, 1, Len(d), TRUE)) % 65521
    IN <<b \div 256, b % 256, a \div 256, a % 256>>

\* ZlibEncoder::new(Vec::new(), Compression::default()) fed d, then finish()
ZlibCompress(d) ==
    <<120, 156, 1, Len(d) % 256, Len(d) \div 256, 255 - (Len(d) % 256), 255 - (Len(d) \div 256)>>
        \o d \o Adler32(d)

\* whether ZlibDecoder reads z to its end without "corrupt deflate stream"
ZlibValid(z) ==
    /\ Len(z) >= 11
    /\ z[1] % 16 = 8
    /\ z[1] \div 16 <= 7
    /\ (z[1] * 256 + z[2]) % 31 = 0
    /\ (z[2] \div 32) % 2 = 0
    /\ z[3] = 1
    /\ z[6] = 255 - z[4]
    /\ z[7] = 255 - z[5]
    /\ Len(z) >= 11 + z[4] + 256 * z[5]
    /\ LET d == SubSeq(z, 8, 7 + z[4] + 256 * z[5])
       IN SubSeq(z, 8 + Len(d), 11 + Len(d)) = Adler32(d)

\* the bytes ZlibDecoder yields for a stream it accepts
ZlibDecompress(z) == IF Len(z) = 0 THEN <<>> ELSE SubSeq(z, 8, 7 + z[4] + 256 * z[5])

\* ZlibDecoder on no input at all: flate2 returns either end of data or
\* "corrupt deflate stream", depending on its version; on any other input the
\* stream decides
ZlibOutcomes(z) == IF Len(z) = 0 THEN {TRUE, FALSE} ELSE {ZlibValid(z)}

(***************************************************************************)
(* Paths.  A file of the model is keyed by its resolved path: relative to  *)
(* the current directory ("a/b.txt", "output/c.txt"), "../x" above it, or  *)
(* "/x" absolute.                                                          *)
(***************************************************************************)
IsPathSegment(s) == s # <<>> /\ s # <<Dot>>

\* Path::components without the RootDir and CurDir markers: empty segments and
\* "." are dropped, ".." is kept
Components(p) == SelectSeq(Split(p, Slash), IsPathSegment)

IsNormal(s) == s # <<Dot, Dot>>

\* the Component::Normal components of p
NormalComponents(p) == SelectSeq(Components(p), IsNormal)

IsAbsolute(p) == StartsWith(p, <<Slash>>)

\* the directory the components lead to, as the file system resolves them
RECURSIVE Resolve(_, _, _)
Resolve(abs, stack, comps) ==
    IF Len(comps) = 0 THEN stack
    ELSE IF comps[1] = <<Dot, Dot>>
         THEN IF Len(stack) > 0 /\ stack[Len(stack)] # <<Dot, Dot>>
              THEN Resolve(abs, SubSeq(stack, 1, Len(stack) - 1), Tail(comps))
              ELSE IF abs THEN Resolve(abs, stack, Tail(comps))
              ELSE Resolve(abs, Append(stack, comps[1]), Tail(comps))
    ELSE Resolve(abs, Append(stack, comps[1]), Tail(comps))

KeyOf(abs, comps) ==
    IF abs THEN <<Slash>> \o Join(Resolve(abs, <<>>, comps), Slash)
    ELSE Join(Resolve(abs, <<>>, comps), Slash)

\* whether the key names a file in or below the current directory
InCwd(key) == ~IsAbsolute(key) /\ Split(key, Slash)[1] # <<Dot, Dot>>

\* whether the key names a file below ./output
UnderOutput(key) == StartsWith(key, DECODE_OUTPUT \o <<Slash>>) /\ Len(key) > Len(DECODE_OUTPUT) + 1

\* the directories above the keys of a set of files
DirsOf(keys) ==
    UNION { { Join(SubSeq(Split(k, Slash), 1, i), Slash) : i \in 1..(Len(Split(k, Slash)) - 1) } :
            k \in keys }

Before(a, b, ord) == IF ord = "asc" THEN LexLess(a, b) ELSE LexLess(b, a)

RECURSIVE SortKeys(_, _)
SortKeys(S, ord) ==
    IF S = {} THEN <<>>
    ELSE LET m == CHOOSE k \in S : \A j \in S \ {k} : Before(k, j, ord)
         IN <<m>> \o SortKeys(S \ {m}, ord)

\* visit_dirs("."): the files below the current directory, depth first, each
\* directory in the order read_dir lists it (ord)
visit_dirs(files, ord) == SortKeys({k \in DOMAIN files : InCwd(k)}, ord)

\* DirEntry::path() of a file found from "."
EntryPath(key) == <<Dot, Slash>> \o key

(***************************************************************************)
(* encode_dir.                                                             *)
(***************************************************************************)
\* Ignored with a list that lacks ENCODE_OUTPUT and DECODE_OUTPUT
IgnoredNoSelf(path) ==
    \E i \in 1..Len(NormalComponents(path)) :
        NormalComponents(path)[i] \in IGNORED_FILE_DIR \ {ENCODE_OUTPUT, DECODE_OUTPUT}

\* the closure's `ignored`: some Normal component is one of IGNORED_FILE_DIR
Ignored(path) ==
    \E i \in 1..Len(NormalComponents(path)) : NormalComponents(path)[i] \in IGNORED_FILE_DIR

file_sep(path, hash) == Delim \o path \o <<Bar>> \o hash \o DelimNl

\* DefaultHasher over the bytes: a 64-bit SipHash in the code, here a 16-bit
\* polynomial digest of the bytes (a function of the content alone)
RECURSIVE Hasher(_, _)
Hasher(buffer, h) ==
    IF Len(buffer) = 0 THEN h ELSE Hasher(Tail(buffer), (h * 31 + buffer[1] + 1) % 65536)

create_file_sep(path, buffer) == file_sep(path, ToDecimal(Hasher(buffer, 7)))

\* PlainFrame without the separator newline
PlainFrameNoNewline(sep, buffer) == sep \o buffer

\* Mode::Plain arm: the three write_all calls
PlainFrame(sep, buffer) == sep \o buffer \o <<Newline>>

\* Base64Frame without the newline after the payload
Base64FrameNoNewline(sep, buffer) == sep \o Base64Encode(buffer)

\* Mode::Base64 and Mode::CompressedBinary | Mode::CompressedTxt arms
Base64Frame(sep, buffer) == sep \o Base64Encode(buffer) \o <<Newline>>

\* what the second match writes to out_file from the encoder e
FinishBinary(e_) == ZlibCompress(e_)

\* FinishTxt without the outer base64
FinishTxtRaw(e_) == ZlibCompress(e_)

FinishTxt(e_) == Base64Encode(ZlibCompress(e_))

Compressed(m) == m \in {"CompressedBinary", "CompressedTxt"}

(***************************************************************************)
(* decode_dir.                                                             *)
(***************************************************************************)
\* SplitAt that cuts before the newline
SplitAtBefore(buf) == IF Find(buf, Newline) = 0 THEN Len(buf) ELSE Find(buf, Newline) - 1

\* (line, rest) of buffer.split_at(split)
SplitAt(buf) == IF Find(buf, Newline) = 0 THEN Len(buf) ELSE Find(buf, Newline)

LineOf(buf) == SubSeq(buf, 1, SplitAt(buf))

RestOf(buf) == SubSeq(buf, SplitAt(buf) + 1, Len(buf))

\* IsHeader that also takes a ====...==== line without its newline
IsHeaderLoose(line) ==
    StartsWith(line, Delim) /\ (EndsWith(line, DelimNl) \/ EndsWith(line, Delim))

IsHeader(line) == StartsWith(line, Delim) /\ EndsWith(line, DelimNl)

\* &line[4..line.len() - 5] panics when the range is not well formed
SliceOk(line) == 4 <= Len(line) - 5

\* HeaderPath without the split at '|'
HeaderPathWhole(line) == SubSeq(line, 5, Len(line) - 5)

\* path_hash.split('|').next().unwrap() of &line[4..line.len() - 5]
HeaderPath(line) == Split(SubSeq(line, 5, Len(line) - 5), Bar)[1]

\* Path::new("./output").join(path), as text
Target(path) ==
    IF IsAbsolute(path) THEN path ELSE <<Dot, Slash>> \o DECODE_OUTPUT \o <<Slash>> \o path

\* the keys of the directories create_dir_all(target.parent()) walks through
ParentKeys(target) ==
    LET comps == Components(target)
    IN [k \in 1..(Len(comps) - 1) |-> KeyOf(IsAbsolute(target), SubSeq(comps, 1, k))]

\* the first parent that is a file (create_dir_all fails on it), 0 when none is
FirstClash(files, target) ==
    LET pk == ParentKeys(target)
    IN IF \E k \in 1..Len(pk) : pk[k] \in DOMAIN files
       THEN CHOOSE k \in 1..Len(pk) :
                pk[k] \in DOMAIN files /\ \A j \in 1..(k - 1) : pk[j] \notin DOMAIN files
       ELSE 0

\* the directories that exist after create_dir_all(target.parent())
MadeDirs(files, target) ==
    LET pk == ParentKeys(target)
        c == FirstClash(files, target)
    IN {pk[k] : k \in 1..(IF c = 0 THEN Len(pk) ELSE c - 1)} \ {<<>>}

\* whether File::create(target) names a directory, not a file
NamesDirectory(dirset, target) ==
    LET raw == Split(target, Slash)
        comps == Components(target)
    IN \/ raw[Len(raw)] = <<>>
       \/ raw[Len(raw)] = <<Dot>>
       \/ raw[Len(raw)] = <<Dot, Dot>>
       \/ KeyOf(IsAbsolute(target), comps) = <<>>
       \/ KeyOf(IsAbsolute(target), comps) \in dirset

\* File::create: the file is there and empty
Create(files, key) ==
    IF key \in DOMAIN files THEN [files EXCEPT ![key] = <<>>] ELSE files @@ (key :> <<>>)

\* write_all on the handle of the file key
WriteAll(files, key, bytes) == [files EXCEPT ![key] = @ \o bytes]

\* the text handed to base64::decode: &line[..line.len() - 1]
PayloadText(line) == SubSeq(line, 1, Len(line) - 1)

\* the header branch (lines 191-195): what happens, the files and directories
\* after it, and the file left open
HeaderStep(files, dirset, open, line) ==
    LET target == Target(HeaderPath(line))
        key == KeyOf(IsAbsolute(target), Components(target))
        after == dirset \cup MadeDirs(files, target)
    IN IF ~SliceOk(line)
       THEN [exit |-> "panic", fs |-> files, dirs |-> dirset, open |-> open, made |-> <<>>]
       ELSE IF Len(Components(target)) = 0
       THEN [exit |-> "panic", fs |-> files, dirs |-> dirset, open |-> open, made |-> <<>>]
       ELSE IF FirstClash(files, target) # 0 \/ NamesDirectory(after, target)
       THEN [exit |-> "io_error", fs |-> files, dirs |-> after, open |-> open, made |-> <<>>]
       ELSE [exit |-> "ok", fs |-> Create(files, key), dirs |-> after, open |-> <<key>>,
             made |-> <<key>>]

\* PayloadStep whose Plain arm writes the line without its last character
PayloadStepTrim(m, files, dirset, key, line) ==
    IF m = "Plain"
    THEN [exit |-> "ok", fs |-> WriteAll(files, key, SubSeq(line, 1, Len(line) - 1)),
          dirs |-> dirset, open |-> <<key>>, made |-> <<>>]
    ELSE IF ~IsCharBoundary(line, Len(line) - 1) \/ ~Base64Valid(PayloadText(line))
    THEN [exit |-> "panic", fs |-> files, dirs |-> dirset, open |-> <<key>>, made |-> <<>>]
    ELSE [exit |-> "ok", fs |-> WriteAll(files, key, Base64Decode(PayloadText(line))),
          dirs |-> dirset, open |-> <<key>>, made |-> <<>>]

\* the payload branch (lines 196-206) for the open file `key`
PayloadStep(m, files, dirset, key, line) ==
    IF m = "Plain"
    THEN [exit |-> "ok", fs |-> WriteAll(files, key, line), dirs |-> dirset,
          open |-> <<key>>, made |-> <<>>]
    ELSE IF ~IsCharBoundary(line, Len(line) - 1) \/ ~Base64Valid(PayloadText(line))
    THEN [exit |-> "panic", fs |-> files, dirs |-> dirset, open |-> <<key>>, made |-> <<>>]
    ELSE [exit |-> "ok", fs |-> WriteAll(files, key, Base64Decode(PayloadText(line))),
          dirs |-> dirset, open |-> <<key>>, made |-> <<>>]

\* LineStep whose header branch leaves the file that is open in its place
LineStepSticky(m, files, dirset, open, line) ==
    IF IsHeader(line)
    THEN LET r == HeaderStep(files, dirset, open, line)
         IN [r EXCEPT !.open = IF open = <<>> THEN r.open ELSE open]
    ELSE IF open # <<>> THEN PayloadStep(m, files, dirset, open[1], line)
    ELSE [exit |-> "ok", fs |-> files, dirs |-> dirset, open |-> open, made |-> <<>>]

\* LineStep that decodes, in the modes other than Plain, the lines it meets
\* while no file is open
LineStepStrict(m, files, dirset, open, line) ==
    IF IsHeader(line) THEN HeaderStep(files, dirset, open, line)
    ELSE IF open # <<>> THEN PayloadStep(m, files, dirset, open[1], line)
    ELSE IF m # "Plain" /\ ~Base64Valid(PayloadText(line))
    THEN [exit |-> "panic", fs |-> files, dirs |-> dirset, open |-> open, made |-> <<>>]
    ELSE [exit |-> "ok", fs |-> files, dirs |-> dirset, open |-> open, made |-> <<>>]

\* one iteration of the loop on `line`
LineStep(m, files, dirset, open, line) ==
    IF IsHeader(line) THEN HeaderStep(files, dirset, open, line)
    ELSE IF open # <<>> THEN PayloadStep(m, files, dirset, open[1], line)
    ELSE [exit |-> "ok", fs |-> files, dirs |-> dirset, open |-> open, made |-> <<>>]

\* the loop of decode_dir, lines 179-207, on the text buf: how it ends and the
\* files and directories it leaves
RECURSIVE Scan(_, _, _, _, _)
Scan(m, files, dirset, open, buf) ==
    IF buf = <<>> THEN [exit |-> "ok", fs |-> files, dirs |-> dirset]
    ELSE LET r == LineStep(m, files, dirset, open, LineOf(buf))
         IN IF r.exit # "ok" THEN [exit |-> r.exit, fs |-> r.fs, dirs |-> r.dirs]
            ELSE Scan(m, r.fs, r.dirs, r.open, RestOf(buf))

\* the first match of decode_dir on the bytes of out.out: what happens and the
\* text recovered.  zok is whether ZlibDecoder accepts its input.
OuterLayer(m, raw, zok) ==
    IF m = "CompressedBinary"
    THEN IF ~zok THEN [exit |-> "io_error", text |-> <<>>]
         ELSE IF ~Utf8Valid(ZlibDecompress(raw)) THEN [exit |-> "io_error", text |-> <<>>]
         ELSE [exit |-> "ok", text |-> ZlibDecompress(raw)]
    ELSE IF m = "CompressedTxt"
    THEN IF ~Utf8Valid(raw) THEN [exit |-> "io_error", text |-> <<>>]
         ELSE IF ~Base64Valid(raw) THEN [exit |-> "panic", text |-> <<>>]
         ELSE IF ~zok THEN [exit |-> "io_error", text |-> <<>>]
         ELSE IF ~Utf8Valid(ZlibDecompress(Base64Decode(raw)))
              THEN [exit |-> "io_error", text |-> <<>>]
         ELSE [exit |-> "ok", text |-> ZlibDecompress(Base64Decode(raw))]
    ELSE IF ~Utf8Valid(raw) THEN [exit |-> "io_error", text |-> <<>>]
         ELSE [exit |-> "ok", text |-> raw]

\* the bytes ZlibDecoder is given in mode m
ZlibInput(m, raw) == IF m = "CompressedTxt" /\ Base64Valid(raw) THEN Base64Decode(raw) ELSE raw

(***************************************************************************)
(* Inputs: the directory trees and the archives the runs start from.       *)
(***************************************************************************)
\* "a/b.txt"
PathAB == <<97, 47, 98, 46, 116, 120, 116>>
\* "c.txt"
PathC == <<99, 46, 116, 120, 116>>
\* "target/x"
PathTargetX == <<116, 97, 114, 103, 101, 116, 47, 120>>
\* "targets/y"
PathTargetsY == <<116, 97, 114, 103, 101, 116, 115, 47, 121>>
\* "p|q"
PathPQ == <<112, 124, 113>>
\* "output/old.txt"
PathOld == <<111, 117, 116, 112, 117, 116, 47, 111, 108, 100, 46, 116, 120, 116>>
\* "hi"
Hi == <<104, 105>>
\* "hi\n"
HiNl == <<104, 105, 10>>
\* "zz"
Zz == <<122, 122>>
\* "====./a/b.txt|0====\nzz"
SpoofSibling == <<61, 61, 61, 61, 46, 47, 97, 47, 98, 46, 116, 120, 116, 124, 48, 61, 61, 61, 61, 10, 122, 122>>
\* "====./target/x|0====\nzz"
SpoofTarget == <<61, 61, 61, 61, 46, 47, 116, 97, 114, 103, 101, 116, 47, 120, 124, 48, 61, 61, 61, 61, 10, 122, 122>>
\* "====../x|0====\nhi"
SpoofEscape == <<61, 61, 61, 61, 46, 46, 47, 120, 124, 48, 61, 61, 61, 61, 10, 104, 105>>
\* one byte that is not UTF-8
NotUtf8 == <<255>>

\* ====../x|0====\naGk=\n
StreamEscape == <<61, 61, 61, 61, 46, 46, 47, 120, 124, 48, 61, 61, 61, 61, 10, 97, 71, 107, 61, 10>>
\* ====/x|0====\naGk=\n
StreamAbsolute == <<61, 61, 61, 61, 47, 120, 124, 48, 61, 61, 61, 61, 10, 97, 71, 107, 61, 10>>
\* ====foo====\naGk=\n
StreamNoBar == <<61, 61, 61, 61, 102, 111, 111, 61, 61, 61, 61, 10, 97, 71, 107, 61, 10>>
\* ====|0====\naGk=\n
StreamNoPath == <<61, 61, 61, 61, 124, 48, 61, 61, 61, 61, 10, 97, 71, 107, 61, 10>>
\* ====./a|0====\n====\n
StreamShort == <<61, 61, 61, 61, 46, 47, 97, 124, 48, 61, 61, 61, 61, 10, 61, 61, 61, 61, 10>>
\* ====./a|0====\naGk=X  (no newline at the end)
StreamTail == <<61, 61, 61, 61, 46, 47, 97, 124, 48, 61, 61, 61, 61, 10, 97, 71, 107, 61, 88>>
\* ====./a|0====\naGk=  (no newline at the end)
StreamOpenEnd == <<61, 61, 61, 61, 46, 47, 97, 124, 48, 61, 61, 61, 61, 10, 97, 71, 107, 61>>
\* ====./a|0====\n!!\n====./b|0====\naGk=\n
StreamBadLine == <<61, 61, 61, 61, 46, 47, 97, 124, 48, 61, 61, 61, 61, 10, 33, 33, 10, 61, 61, 61, 61, 46, 47, 98, 124, 48, 61, 61, 61, 61, 10, 97, 71, 107, 61, 10>>
\* zz\n====./a|0====\naGk=\n
StreamLead == <<122, 122, 10, 61, 61, 61, 61, 46, 47, 97, 124, 48, 61, 61, 61, 61, 10, 97, 71, 107, 61, 10>>
\* ====./a|0====\nhi\n====./b/c|0====\nzz\n
StreamPlain == <<61, 61, 61, 61, 46, 47, 97, 124, 48, 61, 61, 61, 61, 10, 104, 105, 10, 61, 61, 61, 61, 46, 47, 98, 47, 99, 124, 48, 61, 61, 61, 61, 10, 122, 122, 10>>
\* ====./p|q|0====\nhi\n====./b|0====  (no newline at the end)
StreamBare == <<61, 61, 61, 61, 46, 47, 112, 124, 113, 124, 48, 61, 61, 61, 61, 10, 104, 105, 10, 61, 61, 61, 61, 46, 47, 98, 124, 48, 61, 61, 61, 61>>

Streams ==
    { StreamBare,
      StreamEscape,
      StreamAbsolute,
      StreamNoBar,
      StreamNoPath,
      StreamShort,
      StreamTail,
      StreamOpenEnd,
      StreamBadLine,
      StreamLead,
      StreamPlain }

\* the archives a run may find in out.out: the frame streams as they are, and
\* wrapped as --binary and --text write them
Archives ==
    Streams \cup {ZlibCompress(x) : x \in Streams}
            \cup {Base64Encode(ZlibCompress(x)) : x \in Streams}

\* the source trees, each a function from path to content
Trees ==
    { <<>>,
      (PathAB :> Hi) @@ (PathC :> <<>>),
      (PathC :> <<>>),
      (PathC :> HiNl),
      (PathC :> NotUtf8),
      (PathAB :> Hi) @@ (PathC :> NotUtf8),
      (PathAB :> Hi) @@ (PathTargetX :> Zz) @@ (PathTargetsY :> Hi),
      (PathC :> SpoofTarget) @@ (PathTargetX :> Hi),
      (PathC :> SpoofEscape),
      (PathAB :> Hi) @@ (PathC :> SpoofSibling),
      (PathPQ :> Hi) }

\* a directory as a run finds it: a source tree alone, or a source tree with
\* the out.out and output/ that earlier runs left
Scenarios ==
    {[fs |-> tr, dirs |-> DirsOf(DOMAIN tr)] : tr \in Trees}
    \cup
    {[fs |-> (PathC :> Hi) @@ (ENCODE_OUTPUT :> a) @@ (PathOld :> Zz),
      dirs |-> {DECODE_OUTPUT}] : a \in Archives}

(***************************************************************************)
(* The program: one run of main after another in the same directory.       *)
(***************************************************************************)
\* how many runs a behaviour holds
MaxRuns == 3

VARIABLES
    fs,           \* the files: resolved path |-> content
    dirs,         \* the directories that exist (resolved paths)
    dirOrder,     \* the order in which read_dir lists a directory
    pc,           \* where the run is: main, encode_dir, visit_dirs, decode_dir, scan
    exit,         \* how the last run ended: none, running, ok, io_error, panic, panic_mode
    argv,         \* <<command, mode argument>> of the run; "none" is an absent argument
    mode,         \* the Mode main parsed
    entries,      \* encode_dir: the entries visit_dirs has still to hand to the closure
    e,            \* encode_dir: the bytes written to the ZlibEncoder
    buffer,       \* decode_dir: the text still to scan
    output_file,  \* decode_dir: <<>> (None) or <<key>> (Some(file))
    runs,         \* the number of runs started
    start,        \* history: fs and dirs when the run started
    frames,       \* history: the entries encode_dir has written a frame for, in order
    created,      \* history: the files decode_dir has created, in order
    stream,       \* history: the text decode_dir recovered from out.out
    line,         \* history: the line of the last iteration of the scan
    wasOpen,      \* history: output_file before the last iteration
    scanned,      \* history: the lines the scan has examined, in order
    stderr,       \* history: what main wrote to standard error
    arc,          \* history: the encode run out.out comes from
    last,         \* history: the last completed encode run
    prev          \* history: the completed encode run before it

vars ==
    <<fs, dirs, dirOrder, pc, exit, argv, mode, entries, e, buffer, output_file, runs,
      start, frames, created, stream, line, wasOpen, scanned, stderr, arc, last, prev>>

Commands == {"encode", "decode", "pack", "none"}

ModeArgs == {"--plain", "--base64", "--binary", "--text", "--zip", "none"}

\* mode.as_deref().unwrap_or("--plain")
ModeArg(arg) == IF arg = "none" THEN "--plain" ELSE arg

\* ModeOf with a catch-all arm that falls back to Plain
ModeOfLenient(text) ==
    IF text = "--base64" THEN "Base64"
    ELSE IF text = "--binary" THEN "CompressedBinary"
    ELSE IF text = "--text" THEN "CompressedTxt"
    ELSE "Plain"

\* the match on the mode text; "unsupported" is the panic! arm
ModeOf(text) ==
    IF text = "--plain" THEN "Plain"
    ELSE IF text = "--base64" THEN "Base64"
    ELSE IF text = "--binary" THEN "CompressedBinary"
    ELSE IF text = "--text" THEN "CompressedTxt"
    ELSE "unsupported"

\* Dispatch whose last else runs encode_dir
DispatchEncode(command) ==
    IF command = "decode" THEN "decode_dir" ELSE "encode_dir"

\* the if-let chain on the command: where main goes
Dispatch(command) ==
    IF command = "encode" THEN "encode_dir"
    ELSE IF command = "decode" THEN "decode_dir"
    ELSE "main"

\* the line the eprintln! of the last else writes (line 78), without its back quotes
Usage == "command is decode or encode"

NoArc == [mode |-> "none", tree |-> <<>>, excluded |-> {}]

NoRun == [mode |-> "none", src |-> <<>>, archive |-> <<>>]

\* the files of the source tree: those of the current directory other than
\* out.out and the files below output/
IsSource(key) == InCwd(key) /\ key # ENCODE_OUTPUT /\ ~UnderOutput(key)

Source(files) == [k \in {x \in DOMAIN files : IsSource(x)} |-> files[k]]

Init ==
    /\ \E sc \in Scenarios :
          /\ fs = sc.fs
          /\ dirs = sc.dirs
          /\ start = [fs |-> sc.fs, dirs |-> sc.dirs]
    /\ dirOrder \in {"asc", "desc"}
    /\ pc = "main"
    /\ exit = "none"
    /\ argv = <<"none", "none">>
    /\ mode = "Plain"
    /\ entries = <<>>
    /\ e = <<>>
    /\ buffer = <<>>
    /\ output_file = <<>>
    /\ runs = 0
    /\ frames = <<>>
    /\ created = <<>>
    /\ stream = <<>>
    /\ line = <<>>
    /\ wasOpen = FALSE
    /\ scanned = <<>>
    /\ stderr = ""
    /\ arc = NoArc
    /\ last = NoRun
    /\ prev = NoRun

\* main, lines 50-82: a new process with its arguments
Main(command, arg) ==
    /\ pc = "main"
    /\ runs < MaxRuns
    /\ command = "none" => arg = "none"
    /\ runs' = runs + 1
    /\ argv' = <<command, arg>>
    /\ start' = [fs |-> fs, dirs |-> dirs]
    /\ entries' = <<>>
    /\ e' = <<>>
    /\ buffer' = <<>>
    /\ output_file' = <<>>
    /\ frames' = <<>>
    /\ created' = <<>>
    /\ stream' = <<>>
    /\ line' = <<>>
    /\ wasOpen' = FALSE
    /\ scanned' = <<>>
    /\ IF ModeOf(ModeArg(arg)) = "unsupported"
       THEN /\ exit' = "panic_mode"
            /\ pc' = "main"
            /\ mode' = mode
            /\ stderr' = ""
       ELSE /\ mode' = ModeOf(ModeArg(arg))
            /\ pc' = Dispatch(command)
            /\ exit' = IF Dispatch(command) = "main" THEN "ok" ELSE "running"
            /\ stderr' = IF Dispatch(command) = "main" THEN Usage ELSE ""
    /\ UNCHANGED <<fs, dirs, dirOrder, arc, last, prev>>

\* encode_dir, lines 91-95: File::create(ENCODE_OUTPUT), the encoder, and the walk begins
EncodeCreate ==
    /\ pc = "encode_dir"
    /\ IF ENCODE_OUTPUT \in dirs
       THEN /\ exit' = "io_error"
            /\ pc' = "main"
            /\ UNCHANGED <<fs, entries, arc>>
       ELSE /\ fs' = Create(fs, ENCODE_OUTPUT)
            /\ entries' = visit_dirs(fs', dirOrder)
            /\ arc' = NoArc
            /\ pc' = "visit_dirs"
            /\ exit' = exit
    /\ e' = <<>>
    /\ UNCHANGED <<dirs, dirOrder, argv, mode, buffer, output_file, runs, start, frames,
                   created, stream, line, wasOpen, scanned, stderr, last, prev>>

\* the closure, lines 96-132, on one entry: what it writes to out_file and to e
EncodeOne(m, path, buf) ==
    IF Ignored(path) THEN [out |-> <<>>, e |-> <<>>]
    ELSE IF m = "Plain" THEN [out |-> PlainFrame(create_file_sep(path, buf), buf), e |-> <<>>]
    ELSE IF m = "Base64" THEN [out |-> Base64Frame(create_file_sep(path, buf), buf), e |-> <<>>]
    ELSE [out |-> <<>>, e |-> Base64Frame(create_file_sep(path, buf), buf)]

EncodeEntry ==
    /\ pc = "visit_dirs"
    /\ entries # <<>>
    /\ LET key == Head(entries)
           w == EncodeOne(mode, EntryPath(key), fs[key])
       IN /\ fs' = WriteAll(fs, ENCODE_OUTPUT, w.out)
          /\ e' = e \o w.e
          /\ frames' = IF Ignored(EntryPath(key)) THEN frames ELSE Append(frames, key)
    /\ entries' = Tail(entries)
    /\ UNCHANGED <<dirs, dirOrder, pc, exit, argv, mode, buffer, output_file, runs, start,
                   created, stream, line, wasOpen, scanned, stderr, arc, last, prev>>

\* the second match, lines 135-147: what is written to out_file at the end
Finish(m, e_) ==
    IF m = "CompressedBinary" THEN FinishBinary(e_)
    ELSE IF m = "CompressedTxt" THEN FinishTxt(e_)
    ELSE <<>>

\* encode_dir, lines 135-148, after the walk
EncodeFinish ==
    /\ pc = "visit_dirs"
    /\ entries = <<>>
    /\ fs' = WriteAll(fs, ENCODE_OUTPUT, Finish(mode, e))
    /\ pc' = "main"
    /\ exit' = "ok"
    /\ arc' = [mode |-> mode,
               tree |-> [i \in 1..Len(frames) |-> <<frames[i], fs[frames[i]]>>],
               excluded |-> {k \in DOMAIN Source(start.fs) :
                               \E i \in 1..Len(Split(k, Slash)) :
                                   Split(k, Slash)[i] \in IGNORED_FILE_DIR}]
    /\ prev' = last
    /\ last' = [mode |-> mode, src |-> Source(start.fs), archive |-> fs'[ENCODE_OUTPUT]]
    /\ UNCHANGED <<dirs, dirOrder, argv, mode, entries, e, buffer, output_file, runs, start,
                   frames, created, stream, line, wasOpen, scanned, stderr>>

\* decode_dir, lines 152-178: open out.out and remove the outer layer
DecodeOpen ==
    /\ pc = "decode_dir"
    /\ IF ENCODE_OUTPUT \notin DOMAIN fs
       THEN /\ exit' = "io_error"
            /\ pc' = "main"
            /\ UNCHANGED <<buffer, stream>>
       ELSE \E zok \in ZlibOutcomes(ZlibInput(mode, fs[ENCODE_OUTPUT])) :
               LET r == OuterLayer(mode, fs[ENCODE_OUTPUT], zok)
               IN /\ exit' = IF r.exit = "ok" THEN exit ELSE r.exit
                  /\ pc' = IF r.exit = "ok" THEN "scan" ELSE "main"
                  /\ buffer' = r.text
                  /\ stream' = r.text
    /\ output_file' = <<>>
    /\ UNCHANGED <<fs, dirs, dirOrder, argv, mode, entries, e, runs, start, frames, created,
                   line, wasOpen, scanned, stderr, arc, last, prev>>

\* one iteration of the loop, lines 179-207, on a buffer that is not empty
DecodeLine ==
    /\ pc = "scan"
    /\ buffer # <<>>
    /\ LET r == LineStep(mode, fs, dirs, output_file, LineOf(buffer))
       IN /\ fs' = r.fs
          /\ dirs' = r.dirs
          /\ output_file' = r.open
          /\ created' = created \o r.made
          /\ exit' = IF r.exit = "ok" THEN exit ELSE r.exit
          /\ pc' = IF r.exit = "ok" THEN "scan" ELSE "main"
          /\ arc' = IF r.fs[ENCODE_OUTPUT] = fs[ENCODE_OUTPUT] THEN arc ELSE NoArc
    /\ buffer' = RestOf(buffer)
    /\ line' = LineOf(buffer)
    /\ wasOpen' = (output_file # <<>>)
    /\ scanned' = Append(scanned, LineOf(buffer))
    /\ UNCHANGED <<dirOrder, argv, mode, entries, e, runs, start, frames, stream, stderr,
                   last, prev>>

\* the break at line 181 and Ok(()) at line 209
DecodeDone ==
    /\ pc = "scan"
    /\ buffer = <<>>
    /\ pc' = "main"
    /\ exit' = "ok"
    /\ UNCHANGED <<fs, dirs, dirOrder, argv, mode, entries, e, buffer, output_file, runs,
                   start, frames, created, stream, line, wasOpen, scanned, stderr, arc, last,
                   prev>>

Next ==
    \/ \E command \in Commands, arg \in ModeArgs : Main(command, arg)
    \/ EncodeCreate
    \/ EncodeEntry
    \/ EncodeFinish
    \/ DecodeOpen
    \/ DecodeLine
    \/ DecodeDone

Spec == Init /\ [][Next]_vars

(***************************************************************************)
(* Properties.                                                             *)
(***************************************************************************)
\* the run of `command` has ended (its mode argument was accepted)
Ended(command) == pc = "main" /\ argv[1] = command /\ exit \in {"ok", "io_error", "panic"}

\* the run is a decode that got to its scan, or has ended
Decoding == argv[1] = "decode" /\ exit # "panic_mode" /\ pc \in {"scan", "main"}

OutKey(key) == DECODE_OUTPUT \o <<Slash>> \o key

CreatedSet == {created[i] : i \in 1..Len(created)}

HasIgnoredName(key) ==
    \E i \in 1..Len(Split(key, Slash)) : Split(key, Slash)[i] \in IGNORED_FILE_DIR

NotIgnoredName(key) == ~HasIgnoredName(key)

\* every file of the archived tree is under output/ with its content
TreeRestored ==
    \A i \in 1..Len(arc.tree) :
        /\ OutKey(arc.tree[i][1]) \in DOMAIN fs
        /\ fs[OutKey(arc.tree[i][1])] = arc.tree[i][2]

\* C1: encode then decode in the same mode ends well and leaves every archived
\* file under output/ at its relative path with its original bytes.
RoundTripIdentity ==
    (Ended("decode") /\ arc.mode = mode) => (exit = "ok" /\ TreeRestored)

\* C2: decoding an archive in a mode other than the one that wrote it never
\* ends well with exactly the archived tree, byte for byte, as its output.
ModeFormatCompatibility ==
    (Ended("decode") /\ exit = "ok" /\ arc.mode \notin {"none", mode})
        => ~(/\ TreeRestored
             /\ CreatedSet = {OutKey(arc.tree[i][1]) : i \in 1..Len(arc.tree)})

\* C3: an entry with a path segment equal to an excluded name gets no frame from
\* encode, an entry without one gets a frame, and a following decode in the same
\* mode creates no file for an excluded entry.
ExclusionInvariant ==
    /\ \A i \in 1..Len(frames) : NotIgnoredName(frames[i])
    /\ Ended("encode") /\ exit = "ok"
         => \A k \in DOMAIN Source(start.fs) :
               NotIgnoredName(k) => \E i \in 1..Len(frames) : frames[i] = k
    /\ (Decoding /\ arc.mode = mode) => \A k \in arc.excluded : OutKey(k) \notin CreatedSet

\* C4: every file decode creates lies under output/.
DecodeConfinement == \A i \in 1..Len(created) : UnderOutput(created[i])

\* C5: encode writes no frame for out.out nor for a file under output/, and a
\* second encode of an unchanged source tree in the same mode writes the same
\* archive as the first, whatever out.out and output/ hold by then.
RerunSafety ==
    /\ \A i \in 1..Len(frames) : frames[i] # ENCODE_OUTPUT /\ ~UnderOutput(frames[i])
    /\ (last.mode # "none" /\ prev.mode = last.mode /\ prev.src = last.src)
         => last.archive = prev.archive

\* C5 witness: a second encode of the same tree has ended, and it started with
\* an out.out that was not empty and a file under output/.
RerunSafetyWitness ==
    /\ Ended("encode")
    /\ prev.mode = last.mode
    /\ prev.mode # "none"
    /\ prev.src = last.src
    /\ last.archive # <<>>
    /\ ENCODE_OUTPUT \in DOMAIN start.fs
    /\ start.fs[ENCODE_OUTPUT] # <<>>
    /\ \E k \in DOMAIN start.fs : UnderOutput(k)

\* the frames of the entries `keys`, in order, as the layout of mode m states
\* them: header(path, tag), payload, one newline
RECURSIVE Layout(_, _, _)
Layout(m, files, keys) ==
    IF Len(keys) = 0 THEN <<>>
    ELSE create_file_sep(EntryPath(keys[1]), files[keys[1]])
         \o (IF m = "Plain" THEN files[keys[1]] ELSE Base64Encode(files[keys[1]]))
         \o <<Newline>>
         \o Layout(m, files, Tail(keys))

\* the entries of the run's directory that have no excluded name, in traversal order
Archived == SelectSeq(visit_dirs(start.fs, dirOrder), NotIgnoredName)

\* C6: in Plain and Base64 modes out.out holds, at every step of encode, the
\* frames of the entries visited so far, so that with the frames of the entries
\* still to visit it is the concatenation in traversal order of one frame per
\* entry that is not excluded; at the end it is exactly that.
ArchiveLayout ==
    (pc = "visit_dirs" \/ (Ended("encode") /\ exit = "ok")) /\ mode \in {"Plain", "Base64"}
        => fs[ENCODE_OUTPUT] \o Layout(mode, start.fs, SelectSeq(entries, NotIgnoredName))
             = Layout(mode, start.fs, Archived)

\* C6 witness: a Base64 encode has ended with two frames written and an
\* excluded entry passed over.
ArchiveLayoutWitness ==
    /\ Ended("encode")
    /\ exit = "ok"
    /\ mode = "Base64"
    /\ Len(frames) >= 2
    /\ \E k \in DOMAIN Source(start.fs) : HasIgnoredName(k)

\* what Base64 mode writes to out.out for the entries `keys`
RECURSIVE Base64Archive(_, _)
Base64Archive(files, keys) ==
    IF Len(keys) = 0 THEN <<>>
    ELSE EncodeOne("Base64", EntryPath(keys[1]), files[keys[1]]).out
         \o Base64Archive(files, Tail(keys))

\* the frame stream of the archived tree `tree`, as Base64 mode writes it
RECURSIVE Base64Stream(_)
Base64Stream(tree) ==
    IF Len(tree) = 0 THEN <<>>
    ELSE EncodeOne("Base64", EntryPath(tree[1][1]), tree[1][2]).out \o Base64Stream(Tail(tree))

\* C7: the --binary archive is compress(F) and the --text archive is
\* base64(compress(F)), F being what Base64 mode writes for the same tree and
\* order; and decode in either mode recovers exactly F before it scans.
ModeLayering ==
    /\ (Ended("encode") /\ exit = "ok" /\ mode = "CompressedBinary")
         => fs[ENCODE_OUTPUT] = ZlibCompress(Base64Archive(start.fs, visit_dirs(start.fs, dirOrder)))
    /\ (Ended("encode") /\ exit = "ok" /\ mode = "CompressedTxt")
         => fs[ENCODE_OUTPUT]
              = Base64Encode(ZlibCompress(Base64Archive(start.fs, visit_dirs(start.fs, dirOrder))))
    /\ (Decoding /\ Compressed(mode) /\ arc.mode = mode)
         => /\ stream = Base64Stream(arc.tree)
            /\ (pc = "main" /\ line = <<>>) => exit = "ok"

\* C7 witness: a --text decode scans the stream of a --text archive of two files.
ModeLayeringWitness ==
    /\ pc = "scan"
    /\ argv[1] = "decode"
    /\ mode = "CompressedTxt"
    /\ arc.mode = "CompressedTxt"
    /\ Len(arc.tree) >= 2
    /\ stream # <<>>

\* the line without its trailing newline, when it has one
Chomp(l) == IF Len(l) > 0 /\ l[Len(l)] = Newline THEN SubSeq(l, 1, Len(l) - 1) ELSE l

\* C8: in the three base64 modes, a payload line (a file is open) whose content
\* without its trailing newline is not valid base64 ends the decode in failure
\* at that line.
InvalidPayloadFatal ==
    (Decoding /\ mode # "Plain" /\ line # <<>> /\ ~IsHeader(line) /\ wasOpen
        /\ ~Base64Valid(Chomp(line)))
        => (pc = "main" /\ exit \in {"io_error", "panic"})

\* the header-like line parses as ====<path>|<tag>====\n with a path
ParsesCleanly(l) ==
    /\ Len(l) >= 9
    /\ Find(SubSeq(l, 5, Len(l) - 5), Bar) > 1

\* C9: a header-like line that does not parse as ====<path>|<tag>====\n ends the
\* decode in failure at that line, with no file created for it.
MalformedHeaderFatal ==
    (Decoding /\ IsHeader(line) /\ ~ParsesCleanly(line))
        => (pc = "main" /\ exit \in {"io_error", "panic"})

\* C10: a mode argument that is none of the four ends the run in main's panic
\* with every file and directory as the run found it, whatever the command; and
\* a run without a mode argument runs in Plain mode.
UnrecognizedModeFatal ==
    /\ (runs > 0 /\ argv[2] \notin {"--plain", "--base64", "--binary", "--text", "none"})
         => /\ pc = "main"
            /\ exit = "panic_mode"
            /\ fs = start.fs
            /\ dirs = start.dirs
            /\ frames = <<>>
            /\ created = <<>>
    /\ (runs > 0 /\ argv[2] = "none") => (exit # "panic_mode" /\ mode = "Plain")
    /\ exit = "panic_mode"
         => argv[2] \notin {"--plain", "--base64", "--binary", "--text", "none"}

\* C10 witness: encode with an unsupported mode has ended, in a directory that
\* holds an out.out that is not empty and a file under output/.
UnrecognizedModeFatalWitness ==
    /\ argv = <<"encode", "--zip">>
    /\ exit = "panic_mode"
    /\ ENCODE_OUTPUT \in DOMAIN fs
    /\ fs[ENCODE_OUTPUT] # <<>>
    /\ \E k \in DOMAIN fs : UnderOutput(k)

\* the run's command is neither encode nor decode, or is absent
OtherCommand == runs > 0 /\ argv[1] \notin {"encode", "decode"}

\* nothing of the file system differs from what the run found
Untouched == fs = start.fs /\ dirs = start.dirs

\* C11 as the claim states it: whenever the command is neither encode nor
\* decode, or is absent, whatever the other arguments are, the run writes the
\* usage line, ends without error and leaves every file and directory alone.
UnknownCommandNonFatal ==
    OtherCommand => (pc = "main" /\ exit = "ok" /\ stderr = Usage /\ Untouched)

\* C11: whenever the command is neither encode nor decode, or is absent, the
\* run leaves every file and directory alone; when the mode argument is absent
\* or one of --plain, --base64, --binary, --text it writes the usage line and
\* ends without error, and with any other mode argument it panics without
\* writing the usage line.
UnknownCommandUsage ==
    OtherCommand =>
        /\ pc = "main"
        /\ Untouched
        /\ IF argv[2] \in {"none", "--plain", "--base64", "--binary", "--text"}
           THEN exit = "ok" /\ stderr = Usage
           ELSE exit = "panic_mode" /\ stderr = ""

\* an unknown command with a supported mode, in a directory that holds an
\* archive of an earlier run
UnknownCommandUsageWitness ==
    /\ argv = <<"pack", "--base64">>
    /\ exit = "ok"
    /\ stderr = Usage
    /\ ENCODE_OUTPUT \in DOMAIN fs
    /\ fs[ENCODE_OUTPUT] # <<>>
    /\ last.mode # "none"

\* the tags put in the place of those of a stream: "", "7" and "a|="
Tags == {<<>>, <<55>>, <<97, Bar, Equals>>}

\* the line with `tag` in the place of the text between its first '|' and its
\* closing ====, when it is a ====...====\n line that has a '|'
RetagLine(l, tag) ==
    LET inner == SubSeq(l, 5, Len(l) - 5)
        bar == Find(inner, Bar)
    IN IF Len(l) >= 9 /\ SubSeq(l, 1, 4) = Delim /\ SubSeq(l, Len(l) - 4, Len(l)) = DelimNl
          /\ bar # 0
       THEN Delim \o SubSeq(inner, 1, bar) \o tag \o DelimNl
       ELSE l

\* the stream with every tag replaced by `tag`
RECURSIVE Retag(_, _)
Retag(buf, tag) ==
    IF buf = <<>> THEN <<>>
    ELSE LET n == IF Find(buf, Newline) = 0 THEN Len(buf) ELSE Find(buf, Newline)
         IN RetagLine(SubSeq(buf, 1, n), tag) \o Retag(SubSeq(buf, n + 1, Len(buf)), tag)

\* the decode run got its text and its scan has ended
ScanEnded ==
    /\ argv[1] = "decode"
    /\ pc = "main"
    /\ exit \in {"ok", "io_error", "panic"}
    /\ (stream # <<>> \/ exit = "ok")

\* C12: whenever the scan of a decode run has ended, the scan of the same
\* stream with other tags, started in the same directory and mode, ends the
\* same way (success, I/O error or panic) and leaves the same files with the
\* same contents and the same directories.
TagNeverChecked ==
    ScanEnded =>
        \A tag \in Tags :
            LET r == Scan(mode, start.fs, start.dirs, <<>>, Retag(stream, tag))
            IN r.exit = exit /\ r.fs = fs /\ r.dirs = dirs

\* a stream with tags that are not those put in their place has been decoded
\* into files
TagNeverCheckedWitness ==
    /\ ScanEnded
    /\ exit = "ok"
    /\ created # <<>>
    /\ \A tag \in Tags : Retag(stream, tag) # stream
    /\ \E k \in CreatedSet : fs[k] # <<>>

\* the lines the scan has dealt with: all those examined, but for the one the
\* run failed on
Dealt ==
    IF pc = "scan" \/ exit = "ok" \/ scanned = <<>> THEN scanned
    ELSE SubSeq(scanned, 1, Len(scanned) - 1)

\* the file a header line names
HeaderKey(l) ==
    KeyOf(IsAbsolute(Target(HeaderPath(l))), Components(Target(HeaderPath(l))))

\* the positions in Dealt of the header lines, and of those that name key
HeaderAt == {i \in 1..Len(Dealt) : IsHeader(Dealt[i])}

HeaderOf(key) == {i \in HeaderAt : HeaderKey(Dealt[i]) = key}

Greatest(S) == CHOOSE i \in S : \A j \in S : j <= i

\* what a payload line adds to the open file
DecodedLine(m, l) == IF m = "Plain" THEN l ELSE Base64Decode(SubSeq(l, 1, Len(l) - 1))

\* the decoded lines of Dealt at positions from..to, one after the other
RECURSIVE DecodedLines(_, _, _)
DecodedLines(m, from, to) ==
    IF from > to THEN <<>>
    ELSE DecodedLine(m, Dealt[from]) \o DecodedLines(m, from + 1, to)

\* the decoded payload lines between the last header that names key and the
\* next header, or the end
Between(m, key) ==
    LET h == Greatest(HeaderOf(key))
        later == {i \in HeaderAt : i > h}
        stop == IF later = {} THEN Len(Dealt)
                ELSE (CHOOSE i \in later : \A j \in later : i <= j) - 1
    IN DecodedLines(m, h + 1, stop)

\* C13: at every point of a decode run at most one file is open, and it is the
\* one the most recent header line names (none before the first header); the
\* files are those the run found and those the header lines name; a file a
\* header names holds exactly the decoded payload lines between its last
\* header and the next header or the end, in stream order; every other file
\* holds what it held when the run started.
PayloadRouting ==
    Decoding =>
        /\ Len(output_file) <= 1
        /\ output_file = IF HeaderAt = {} THEN <<>>
                         ELSE <<HeaderKey(Dealt[Greatest(HeaderAt)])>>
        /\ DOMAIN fs = DOMAIN start.fs \cup {HeaderKey(Dealt[i]) : i \in HeaderAt}
        /\ \A key \in DOMAIN fs :
               IF HeaderOf(key) # {} THEN fs[key] = Between(mode, key)
               ELSE fs[key] = start.fs[key]

\* a decode run has ended that wrote payload lines to two files, one of them
\* more than one line
PayloadRoutingWitness ==
    /\ Ended("decode")
    /\ exit = "ok"
    /\ \E k1, k2 \in CreatedSet : k1 # k2 /\ fs[k1] # <<>> /\ fs[k2] # <<>>
    /\ \E i \in 1..(Len(scanned) - 1) : ~IsHeader(scanned[i]) /\ ~IsHeader(scanned[i + 1])

\* the line has the shape of a header: ==== first, ====\n last
HeaderShaped(l) ==
    /\ Len(l) >= 5
    /\ \A i \in 1..4 : l[i] = Equals
    /\ \A i \in (Len(l) - 4)..(Len(l) - 1) : l[i] = Equals
    /\ l[Len(l)] = Newline

\* C14: the scan starts with no file open; in every mode, after a line that
\* is not a header was examined while no file was open, the scan goes on (or
\* the run has ended without error), no file is open, no file has been
\* created, and the files and directories are those the run found; and a file
\* is open after a line examined with no file open only when that line is a
\* header.
LeadingLinesDiscarded ==
    /\ (pc = "scan" /\ scanned = <<>>) => output_file = <<>>
    /\ (Decoding /\ scanned # <<>> /\ ~wasOpen /\ ~HeaderShaped(line)) =>
           /\ pc = "scan" \/ exit = "ok"
           /\ output_file = <<>>
           /\ created = <<>>
           /\ Untouched
    /\ (Decoding /\ scanned # <<>> /\ ~wasOpen /\ output_file # <<>>) => HeaderShaped(line)

\* in a mode that decodes payload, the scan has passed a line that is not
\* base64 while no file was open, and has gone on to create a file
LeadingLinesDiscardedWitness ==
    /\ Decoding
    /\ mode # "Plain"
    /\ Len(scanned) >= 2
    /\ ~HeaderShaped(scanned[1])
    /\ ~Base64Valid(Chomp(scanned[1]))
    /\ created # <<>>

\* the text up to its first '|', all of it when it has none
CutAtBar(s) ==
    IF \E i \in 1..Len(s) : s[i] = Bar
    THEN SubSeq(s, 1, (CHOOSE i \in 1..Len(s) : s[i] = Bar /\ \A j \in 1..(i - 1) : s[j] # Bar) - 1)
    ELSE s

\* the text between the first 4 and the last 5 characters of l, cut at its first '|'
PathIn(l) == CutAtBar([i \in 1..(Len(l) - 9) |-> l[i + 4]])

\* the file ./output joined with path names
KeyIn(l) == KeyOf(IsAbsolute(Target(PathIn(l))), Components(Target(PathIn(l))))

\* C15: in every iteration of the scan, a line that starts with ==== and ends
\* with ====\n is treated as a header: either the run fails on it, creating no
\* file (it does when fewer than 9 characters leave no text between the first
\* 4 and the last 5), or the file created and left open is the one named by
\* the text between its first 4 and last 5 characters cut at the first '|'.
\* Any other line, a final ====...==== line without a newline included,
\* creates no file and leaves the open file in its place.
HeaderRecognition ==
    [][(pc = "scan" /\ buffer # <<>>) =>
          IF HeaderShaped(line')
          THEN \/ /\ pc' = "main"
                  /\ exit' \in {"panic", "io_error"}
                  /\ created' = created
                  /\ DOMAIN fs' = DOMAIN fs
               \/ /\ pc' = "scan"
                  /\ Len(line') >= 9
                  /\ created' = Append(created, KeyIn(line'))
                  /\ output_file' = <<KeyIn(line')>>
                  /\ KeyIn(line') \in DOMAIN fs'
                  /\ fs'[KeyIn(line')] = <<>>
          ELSE /\ created' = created
               /\ output_file' = output_file
               /\ DOMAIN fs' = DOMAIN fs]_vars

\* a scan has ended that took a header whose path holds a '|' (the file
\* created is named by the text before it) and a last line ====...==== without
\* a newline, which it wrote as payload
HeaderRecognitionWitness ==
    /\ Ended("decode")
    /\ exit = "ok"
    /\ Len(scanned) >= 2
    /\ HeaderShaped(scanned[1])
    /\ Len(Split(SubSeq(scanned[1], 5, Len(scanned[1]) - 5), Bar)) >= 3
    /\ created = <<KeyIn(scanned[1])>>
    /\ StartsWith(line, Delim) /\ EndsWith(line, Delim) /\ ~HeaderShaped(line)
    /\ EndsWith(fs[created[1]], line)

\* C16: in the modes other than Plain, whenever a payload line is decoded, the
\* text handed to the base64 decoder is the line without its trailing newline
\* and with nothing else removed: the whole line when it is the last one and
\* has no newline.
PayloadStripping ==
    (Decoding /\ mode # "Plain" /\ scanned # <<>> /\ wasOpen /\ ~IsHeader(line)) =>
        PayloadText(line) = Chomp(line)

\* the sequences of `lines`, one after the other
RECURSIVE Flatten(_)
Flatten(lines) == IF lines = <<>> THEN <<>> ELSE Head(lines) \o Flatten(Tail(lines))

\* C17: at every point of a decode run, the lines examined so far are the
\* stream up to the text still to scan, each once and in order, cut after each
\* newline: none is empty (every iteration takes at least one character off
\* the text), none holds a newline before its end, and only the last line of
\* the stream may lack one; so there are at most as many iterations as the
\* stream has characters, and the scan ends without a failure only when no
\* text is left.
ScanTerminates ==
    Decoding =>
        /\ Flatten(scanned) \o buffer = stream
        /\ \A i \in 1..Len(scanned) :
               /\ scanned[i] # <<>>
               /\ \A j \in 1..(Len(scanned[i]) - 1) : scanned[i][j] # Newline
               /\ scanned[i][Len(scanned[i])] = Newline \/ (i = Len(scanned) /\ buffer = <<>>)
        /\ Len(scanned) + Len(buffer) <= Len(stream)
        /\ (pc = "main" /\ exit = "ok") => buffer = <<>>

\* a scan of several lines, the last without a newline, has ended with
\* nothing left
ScanTerminatesWitness ==
    /\ Ended("decode")
    /\ exit = "ok"
    /\ Len(scanned) >= 3
    /\ buffer = <<>>
    /\ line[Len(line)] # Newline

\* no path of the archived tree holds a '|' or a newline
PlainPaths ==
    \A i \in 1..Len(arc.tree) :
        \A j \in 1..Len(arc.tree[i][1]) : arc.tree[i][1][j] \notin {Bar, Newline}

CleanText(data) ==
    /\ Utf8Valid(data)
    /\ \A i \in 1..Len(Split(data \o <<Newline>>, Newline)) :
           LET l == Split(data \o <<Newline>>, Newline)[i]
           IN ~(StartsWith(l, Delim) /\ EndsWith(l, Delim))

\* a Plain decode run has ended on the archive a Plain encode run wrote
PlainRoundTrip == Ended("decode") /\ arc.mode = "Plain" /\ mode = "Plain"

HeaderSliceBounds ==
    (Decoding /\ scanned # <<>> /\ IsHeader(line)) => 4 <= Len(line) - 5

====
